---- MODULE Spec2Model ----
(***************************************************************************)
(* Model of the immo-eliza data-exploration pipeline:                      *)
(*   - Correlation.select_features   (src/utils/correlation.py)            *)
(*   - DataCleaner, its cleaning steps and its CSV round trip              *)
(*                                       (src/utils/data_processing.py)    *)
(*   - Correlation.label_encoding        (src/utils/correlation.py)        *)
(*   - Correlation.target_encoding       (src/utils/correlation.py)        *)
(*   - DataVisualizer.most_least_expensive_locality                        *)
(*                                       (src/utils/visualization.py)      *)
(* Correlation coefficients are fixed-point numbers: 1.0 is One (= 20), so *)
(* 0.95 is 19, 0.9 is 18, 0.7 is 14, 0.5 is 10, 0.3 is 6, 1.1 is 22.               *)
(***************************************************************************)
EXTENDS Integers, Sequences, FiniteSets, TLC

\* ------------------------------------------------------------------------
\* Bounds of the model
\* ------------------------------------------------------------------------

\* Number of numeric columns of the correlation matrix besides 'price'.
NumFeatures == 3

\* Largest number of rows of a table loaded by DataCleaner.
MaxRows == 2

\* Largest number of rows of the table handed to DataVisualizer.
MaxSales == 4

\* ------------------------------------------------------------------------
\* Correlation matrix (Correlation.corr_cals)
\* ------------------------------------------------------------------------

\* np.NaN: the coefficient of a pair with no variance or too few common rows.
NaN == 99

\* The Pearson coefficient 1.0 (the diagonal of the matrix).
One == 20

Price == "price"

FeatureNames == <<"A", "B", "C", "D", "E">>

\* The non-price columns, in the column order of the matrix.
FeatureOrder == SubSeq(FeatureNames, 1, NumFeatures)

Features == {FeatureOrder[k] : k \in 1..NumFeatures}

\* corr.columns: 'price' first, then the other numeric columns.
Columns == <<Price>> \o FeatureOrder

ColumnSet == {Price} \cup Features

\* Coefficients of a feature with price that the model draws from.
PriceVals == {0 - 14, 10, 18, NaN}

\* Coefficients of a pair of features that the model draws from.
PairVals == {0 - 19, 19, One}

\* Thresholds the model draws from (0, 0.7, 1.1 and 0.3, 1.0).
Thres1Vals == {0, 14, 22}

Thres2Vals == {6, One}

Pos(x) == CHOOSE k \in 1..Len(Columns) : Columns[k] = x

\* df.corr(): symmetric; pv gives the price row, qv the feature pairs,
\* pd the diagonal entry of price (NaN when price has no variance, and then
\* every coefficient with price is NaN too).
CorrMatrix(pd, pv, qv) ==
    [x \in ColumnSet |-> [y \in ColumnSet |->
        IF x = Price /\ y = Price THEN pd
        ELSE IF x = Price THEN (IF pd = NaN THEN NaN ELSE pv[y])
        ELSE IF y = Price THEN (IF pd = NaN THEN NaN ELSE pv[x])
        ELSE IF x = y THEN One
        ELSE IF Pos(x) < Pos(y) THEN qv[<<x, y>>] ELSE qv[<<y, x>>]]]

FeaturePairs == {p \in Features \X Features : Pos(p[1]) < Pos(p[2])}

\* ------------------------------------------------------------------------
\* Floating point comparisons with NaN (every comparison with NaN is False)
\* ------------------------------------------------------------------------

Abs(v) == IF v = NaN THEN NaN ELSE IF v < 0 THEN 0 - v ELSE v

\* a >= b on floats
Geq(a, b) == a # NaN /\ b # NaN /\ a >= b

\* a > b on floats
Gt(a, b) == a # NaN /\ b # NaN /\ a > b

VARIABLES
    corr,          \* self.corr
    thres1,        \* argument thres1
    thres2,        \* argument thres2
    select,        \* local dict select, as a sequence of items [var, val]
    select_final,  \* local dict select_final, as a sequence of items
    pc,            \* position in select_features
    original_df,   \* self.original_df of DataCleaner
    df,            \* self.df of DataCleaner
    err,           \* the exception raised by the last call, or "none"
    phase,         \* how far the script went with its table
    op,            \* the last cleaning step called, with its arguments
    df_once,       \* self.df as the first call of op left it
    file,          \* the content of the file written by write_to_csv
    reloaded,      \* the table create_dataframe loads from file
    most_expensive \* the rows DataVisualizer hands to the bar chart

selectVars == <<corr, thres1, thres2, select, select_final, pc>>

tableVars == <<original_df, df, err, phase, op, df_once, file, reloaded>>

chartVars == <<most_expensive>>

vars == <<selectVars, tableVars, chartVars>>

\* ------------------------------------------------------------------------
\* Tables (pd.DataFrame): cells, text and dtypes
\* ------------------------------------------------------------------------

\* A cell is a record [t, s, n]: t is its Python type, s the characters of a
\* str, n the number (a float counts tenths: 100.5 is 1005; an int counts
\* units).  np.nan and pd.NA are both the missing cell NA.
NA == [t |-> "nan", s |-> <<>>, n |-> 0]

PyStr(s) == [t |-> "str", s |-> s, n |-> 0]

PyFloat(n) == [t |-> "float", s |-> <<>>, n |-> n]

PyInt(n) == [t |-> "int", s |-> <<>>, n |-> n]

True == [t |-> "bool", s |-> <<>>, n |-> 1]

IsNA(c) == c.t = "nan"

Uppers == <<"A", "B", "G", "H", "O", "P", "T", "X">>

Lowers == <<"a", "b", "g", "h", "o", "p", "t", "x">>

\* str.lower() on one character
Lower(c) ==
    IF \E k \in 1..Len(Uppers) : Uppers[k] = c
    THEN Lowers[CHOOSE k \in 1..Len(Uppers) : Uppers[k] = c]
    ELSE c

\* str.upper() on one character
Upper(c) ==
    IF \E k \in 1..Len(Lowers) : Lowers[k] = c
    THEN Uppers[CHOOSE k \in 1..Len(Lowers) : Lowers[k] = c]
    ELSE c

RECURSIVE LStrip(_)
LStrip(s) == IF s # <<>> /\ Head(s) = " " THEN LStrip(Tail(s)) ELSE s

RECURSIVE RStrip(_)
RStrip(s) ==
    IF s # <<>> /\ s[Len(s)] = " " THEN RStrip(SubSeq(s, 1, Len(s) - 1)) ELSE s

\* str.strip()
Strip(s) == RStrip(LStrip(s))

\* str.lower()
LowerStr(s) == [k \in 1..Len(s) |-> Lower(s[k])]

\* str.capitalize()
Capitalize(s) == [k \in 1..Len(s) |-> IF k = 1 THEN Upper(s[k]) ELSE Lower(s[k])]

\* str.startswith(prefix)
StartsWith(s, prefix) ==
    Len(s) >= Len(prefix) /\ SubSeq(s, 1, Len(prefix)) = prefix

Http == <<"h", "t", "t", "p">>

\* A table is [columns, dtypes, rows]: the column names in order, the dtype
\* of each column, and the rows, each [idx |-> index label, cells |-> the
\* cell of each column].
NoTable == [columns |-> <<>>, dtypes |-> <<>>, rows |-> <<>>]

ColNames(t) == {t.columns[k] : k \in 1..Len(t.columns)}

RECURSIVE SelectSeq2(_, _)
\* the items of seq whose positions satisfy keep (a function of position)
SelectSeq2(seq, keep) ==
    IF seq = <<>> THEN <<>>
    ELSE LET n == Len(seq)
             front == SelectSeq2(SubSeq(seq, 1, n - 1), keep)
         IN IF keep[n] THEN Append(front, seq[n]) ELSE front

\* the cells of column c, top to bottom
ColumnCells(t, c) == [k \in 1..Len(t.rows) |-> t.rows[k].cells[c]]

\* DataFrame.drop(columns=names), the names known to be columns
DropColumns(t, names) ==
    LET keep == [k \in 1..Len(t.columns) |-> t.columns[k] \notin names]
        cols == SelectSeq2(t.columns, keep)
        left == {cols[k] : k \in 1..Len(cols)}
    IN [columns |-> cols,
        dtypes |-> [c \in left |-> t.dtypes[c]],
        rows |-> [k \in 1..Len(t.rows) |->
                    [idx |-> t.rows[k].idx,
                     cells |-> [c \in left |-> t.rows[k].cells[c]]]]]

\* the rows at the positions that satisfy keep, the columns as they are
KeepRows(t, keep) == [t EXCEPT !.rows = SelectSeq2(t.rows, keep)]

\* the dtype pandas infers for a column of parsed cells (read_csv)
InferDtype(cells) ==
    LET present == {k \in 1..Len(cells) : ~IsNA(cells[k])}
    IN IF present = {} THEN "float64"
       ELSE IF \A k \in present : cells[k].t = "int"
            THEN (IF present = 1..Len(cells) THEN "int64" ELSE "float64")
       ELSE IF \A k \in present : cells[k].t \in {"int", "float"} THEN "float64"
       ELSE IF \A k \in present : cells[k].t = "bool"
            THEN (IF present = 1..Len(cells) THEN "bool" ELSE "object")
       ELSE "object"

Ok(t) == [df |-> t, err |-> "none"]

Raise(t, e) == [df |-> t, err |-> e]

\* ------------------------------------------------------------------------
\* DataCleaner: the cleaning steps, each from a table to [df, err]
\* ------------------------------------------------------------------------

SeqSet(q) == {q[k] : k \in 1..Len(q)}

\* self.df.isnull().sum() of column c
MissingCount(t, c) == Cardinality({k \in 1..Len(t.rows) : IsNA(t.rows[k].cells[c])})

\* perc >= percent for column c, where perc = missing / len(df) * 100 (NaN
\* for a table without rows, and then the comparison is False)
MissingReaches(t, c, percent) ==
    Len(t.rows) > 0 /\ MissingCount(t, c) * 100 >= percent * Len(t.rows)

\* DataCleaner.remove_columns_by_missing_percentage (to_drop: <<>> is None)
remove_columns_by_missing_percentage(t, percent, exceptions, to_drop) ==
    LET columns_to_drop == {c \in ColNames(t) :
                               MissingReaches(t, c, percent) /\ c \notin SeqSet(exceptions)}
        t1 == DropColumns(t, columns_to_drop)
    IN IF to_drop = <<>> THEN Ok(t1)
       ELSE IF SeqSet(to_drop) \subseteq ColNames(t1)
            THEN Ok(DropColumns(t1, SeqSet(to_drop)))
            ELSE Raise(t1, "KeyError")

\* DataCleaner.remove_duplicates (subset: <<>> is None; keep: "none" is False)
remove_duplicates(t, subset, keep) ==
    LET by == IF subset = <<>> THEN ColNames(t) ELSE SeqSet(subset)
        key(k) == [c \in by |-> t.rows[k].cells[c]]
        n == Len(t.rows)
        duplicated == [k \in 1..n |->
            CASE keep = "first" -> \E l \in 1..(k - 1) : key(l) = key(k)
              [] keep = "last" -> \E l \in (k + 1)..n : key(l) = key(k)
              [] OTHER -> \E l \in 1..n : l # k /\ key(l) = key(k)]
    IN IF ~(by \subseteq ColNames(t)) THEN Raise(t, "KeyError")
       ELSE Ok(KeepRows(t, [k \in 1..n |-> ~duplicated[k]]))

\* the lambda of remove_spaces
StripLowerCapitalize(x) ==
    IF x.t = "str" /\ ~StartsWith(x.s, Http)
    THEN PyStr(Capitalize(LowerStr(Strip(x.s))))
    ELSE x

\* DataCleaner.remove_spaces
remove_spaces(t) ==
    Ok([t EXCEPT !.rows = [k \in 1..Len(t.rows) |->
          [t.rows[k] EXCEPT !.cells = [c \in ColNames(t) |->
              IF t.dtypes[c] = "object"
              THEN StripLowerCapitalize(t.rows[k].cells[c])
              ELSE t.rows[k].cells[c]]]]])

\* DataCleaner.remove_by_column_values
remove_by_column_values(t, column, value) ==
    IF column \notin ColNames(t) THEN Raise(t, "UndefinedVariableError")
    ELSE Ok(KeepRows(t, [k \in 1..Len(t.rows) |->
            LET x == t.rows[k].cells[column]
            IN ~(x.t = "str" /\ x.s \in SeqSet(value))]))

NumericDtypes == {"int64", "float64", "Int64"}

\* pd.to_numeric(x, errors='coerce') on one cell of a numeric column
ToNumeric(x) == IF x.t \in {"int", "float", "nan"} THEN x ELSE NA

\* DataCleaner.handle_errors
handle_errors(t) ==
    Ok([t EXCEPT !.rows = [k \in 1..Len(t.rows) |->
          [t.rows[k] EXCEPT !.cells = [c \in ColNames(t) |->
              IF t.dtypes[c] \in NumericDtypes
              THEN ToNumeric(t.rows[k].cells[c])
              ELSE t.rows[k].cells[c]]]]])

\* int(x) of a float counted in tenths: truncation toward zero
IntOf(n) == IF n >= 0 THEN n \div 10 ELSE 0 - ((0 - n) \div 10)

\* the number a numeric cell holds, in tenths
Tenths(x) == IF x.t = "float" THEN x.n ELSE x.n * 10

\* set(self.df[col].dropna().unique()) == {True}
OnlyTrue(t, c) ==
    /\ \E k \in 1..Len(t.rows) : ~IsNA(t.rows[k].cells[c])
    /\ \A k \in 1..Len(t.rows) :
          IsNA(t.rows[k].cells[c]) \/ t.rows[k].cells[c] = True

\* DataCleaner.handle_missing_values
handle_missing_values(t) ==
    LET bools == {c \in ColNames(t) : t.dtypes[c] = "object" /\ OnlyTrue(t, c)}
        floats == {c \in ColNames(t) : t.dtypes[c] = "float64"}
        conv(c, x) ==
            IF c \in bools THEN (IF x = True THEN PyInt(1) ELSE x)
            ELSE IF c \in floats THEN (IF IsNA(x) THEN x ELSE PyInt(IntOf(x.n)))
            ELSE x
    IN Ok([t EXCEPT
            !.dtypes = [c \in ColNames(t) |->
                IF c \in bools \cup floats THEN "Int64" ELSE t.dtypes[c]],
            !.rows = [k \in 1..Len(t.rows) |->
                [t.rows[k] EXCEPT !.cells = [c \in ColNames(t) |->
                    conv(c, t.rows[k].cells[c])]]]])

\* self.df[column].value_counts()[x], 0 for a value that does not occur
ValueCount(t, column, x) ==
    Cardinality({k \in 1..Len(t.rows) : t.rows[k].cells[column] = x})

\* DataCleaner.replace_rare_values
replace_rare_values(t, column, replacement, min_amount) ==
    IF column \notin ColNames(t) THEN Raise(t, "KeyError")
    ELSE LET rare(x) == ~IsNA(x) /\ ValueCount(t, column, x) < min_amount
         IN Ok([t EXCEPT !.rows = [k \in 1..Len(t.rows) |->
                 [t.rows[k] EXCEPT !.cells[column] =
                     IF rare(t.rows[k].cells[column])
                     THEN replacement
                     ELSE t.rows[k].cells[column]]]])

\* ------------------------------------------------------------------------
\* DataCleaner: CSV text (write_to_csv, create_dataframe)
\* ------------------------------------------------------------------------

DigitChars == <<"0", "1", "2", "3", "4", "5", "6", "7", "8", "9">>

IsDigit(c) == \E k \in 1..Len(DigitChars) : DigitChars[k] = c

DigitVal(c) == (CHOOSE k \in 1..Len(DigitChars) : DigitChars[k] = c) - 1

RECURSIVE Digits(_)
\* str(n) for n >= 0
Digits(n) ==
    IF n < 10 THEN <<DigitChars[n + 1]>>
    ELSE Digits(n \div 10) \o <<DigitChars[(n % 10) + 1]>>

\* str(n) of an int
IntText(n) == IF n < 0 THEN <<"-">> \o Digits(0 - n) ELSE Digits(n)

\* repr of a float counted in tenths: 1005 is written 100.5
FloatText(n) ==
    LET m == IF n < 0 THEN 0 - n ELSE n
    IN (IF n < 0 THEN <<"-">> ELSE <<>>) \o Digits(m \div 10) \o <<".">> \o Digits(m % 10)

\* the field to_csv writes for a cell (na_rep = '')
FormatCell(x) ==
    CASE x.t = "nan" -> <<>>
      [] x.t = "str" -> x.s
      [] x.t = "bool" -> <<"T", "r", "u", "e">>
      [] x.t = "int" -> IntText(x.n)
      [] OTHER -> FloatText(x.n)

NoFile == [header |-> <<>>, lines |-> <<>>, written |-> FALSE]

\* self.df.to_csv(output_file, index=False): the header, then one line of
\* fields per row; the index is not written
ToCsv(t) ==
    [header |-> t.columns,
     lines |-> [k \in 1..Len(t.rows) |->
                  [c \in 1..Len(t.columns) |-> FormatCell(t.rows[k].cells[t.columns[c]])]],
     written |-> TRUE]

Unsigned(fld) == IF fld # <<>> /\ Head(fld) = "-" THEN Tail(fld) ELSE fld

AllDigits(fld) == fld # <<>> /\ \A k \in 1..Len(fld) : IsDigit(fld[k])

IsIntLit(fld) == AllDigits(Unsigned(fld))

\* digits '.' digit
IsFloatLit(fld) ==
    LET u == Unsigned(fld)
    IN /\ Len(u) >= 3
       /\ u[Len(u) - 1] = "."
       /\ IsDigit(u[Len(u)])
       /\ AllDigits(SubSeq(u, 1, Len(u) - 2))

RECURSIVE NatOf(_)
NatOf(ds) ==
    IF ds = <<>> THEN 0
    ELSE NatOf(SubSeq(ds, 1, Len(ds) - 1)) * 10 + DigitVal(ds[Len(ds)])

IntOfText(fld) ==
    IF Head(fld) = "-" THEN 0 - NatOf(Tail(fld)) ELSE NatOf(fld)

\* the tenths of a numeric literal
TenthsOfText(fld) ==
    IF IsIntLit(fld) THEN IntOfText(fld) * 10
    ELSE LET u == Unsigned(fld)
             m == NatOf(SubSeq(u, 1, Len(u) - 2)) * 10 + DigitVal(u[Len(u)])
         IN IF Head(fld) = "-" THEN 0 - m ELSE m

IsBoolLit(fld) == fld = <<"T", "r", "u", "e">>

\* the cells the parser of read_csv makes of the fields of one column
ParseColumn(flds) ==
    LET present == {k \in 1..Len(flds) : flds[k] # <<>>}
        full == present = 1..Len(flds)
    IN IF present # {} /\ full /\ \A k \in present : IsIntLit(flds[k])
       THEN [k \in 1..Len(flds) |-> PyInt(IntOfText(flds[k]))]
       ELSE IF present # {} /\ \A k \in present : IsIntLit(flds[k]) \/ IsFloatLit(flds[k])
       THEN [k \in 1..Len(flds) |->
                IF flds[k] = <<>> THEN NA ELSE PyFloat(TenthsOfText(flds[k]))]
       ELSE IF present # {} /\ \A k \in present : IsBoolLit(flds[k])
       THEN [k \in 1..Len(flds) |-> IF flds[k] = <<>> THEN NA ELSE True]
       ELSE [k \in 1..Len(flds) |-> IF flds[k] = <<>> THEN NA ELSE PyStr(flds[k])]

\* pd.read_csv(filepath, index_col=0): the first column of the file becomes
\* the index, the other columns are the columns of the table
ReadCsv(f) ==
    IF f.header = <<>> THEN Raise(NoTable, "Exception")
    ELSE LET n == Len(f.lines)
             parsed == [c \in 1..Len(f.header) |->
                          ParseColumn([k \in 1..n |-> f.lines[k][c]])]
             names == Tail(f.header)
             at == [name \in SeqSet(names) |->
                      CHOOSE c \in 2..Len(f.header) : f.header[c] = name]
         IN Ok([columns |-> names,
                dtypes |-> [name \in SeqSet(names) |-> InferDtype(parsed[at[name]])],
                rows |-> [k \in 1..n |->
                    [idx |-> parsed[1][k],
                     cells |-> [name \in SeqSet(names) |-> parsed[at[name]][k]]]]])

\* ------------------------------------------------------------------------
\* DataCleaner: the script's calls
\* ------------------------------------------------------------------------

\* A call of a step: its name and its arguments (the arguments a
\* step does not take keep the values of NoOp).
NoOp == [name |-> "none", percent |-> 0, exceptions |-> <<>>, to_drop |-> <<>>,
         subset |-> <<>>, keep |-> "first", column |-> "", value |-> <<>>,
         replacement |-> NA, min_amount |-> 0, label_cols |-> <<>>,
         target_cols |-> <<>>, region |-> "", metric |-> "",
         type_of_sort |-> FALSE, top |-> 0]

\* the table and chart variables while no DataCleaner exists
TableIdle ==
    /\ original_df = NoTable
    /\ df = NoTable
    /\ err = "none"
    /\ phase = "idle"
    /\ op = NoOp
    /\ df_once = NoTable
    /\ file = NoFile
    /\ reloaded = NoTable
    /\ most_expensive = <<>>

\* the select_features variables while no Correlation exists
SelectIdle ==
    /\ corr = <<>>
    /\ thres1 = 0
    /\ thres2 = 0
    /\ select = <<>>
    /\ select_final = <<>>
    /\ pc = "idle"

\* ------------------------------------------------------------------------
\* dict helpers
\* ------------------------------------------------------------------------

Keys(d) == {d[k].var : k \in 1..Len(d)}

RECURSIVE Pop(_, _)
\* dict.pop(key, None): remove the item of key, keep the order of the rest
Pop(d, key) ==
    IF d = <<>> THEN <<>>
    ELSE IF Head(d).var = key THEN Tail(d)
    ELSE <<Head(d)>> \o Pop(Tail(d), key)

RECURSIVE FilterItemsSigned(_, _, _)
\* the filter of line 169 on the signed coefficient (abs() left out)
FilterItemsSigned(m, cols, t1) ==
    IF cols = <<>> THEN <<>>
    ELSE LET x == Head(cols)
             rest == FilterItemsSigned(m, Tail(cols), t1)
         IN IF Geq(m[Price][x], t1)
            THEN <<[var |-> x, val |-> m[Price][x]]>> \o rest
            ELSE rest

RECURSIVE FilterItems(_, _, _)
\* self.corr['price'][abs(self.corr['price']) >= thres1].to_dict()
FilterItems(m, cols, t1) ==
    IF cols = <<>> THEN <<>>
    ELSE LET x == Head(cols)
             rest == FilterItems(m, Tail(cols), t1)
         IN IF Geq(Abs(m[Price][x]), t1)
            THEN <<[var |-> x, val |-> m[Price][x]]>> \o rest
            ELSE rest

RECURSIVE InsertDesc(_, _)
\* place item after every item whose key is >= its own (stable, descending)
InsertDesc(sorted, item) ==
    IF sorted = <<>> THEN <<item>>
    ELSE IF Abs(Head(sorted).val) >= Abs(item.val)
         THEN <<Head(sorted)>> \o InsertDesc(Tail(sorted), item)
         ELSE <<item>> \o sorted

\* select left in the column order of the matrix (the sort of line 171 omitted)
SortItemsOmitted(d) == d

RECURSIVE SortItems(_)
\* dict(sorted(select.items(), key=lambda item: abs(item[1]), reverse=True))
SortItems(d) ==
    IF d = <<>> THEN <<>>
    ELSE InsertDesc(SortItems(SubSeq(d, 1, Len(d) - 1)), d[Len(d)])

\* ------------------------------------------------------------------------
\* Correlation.select_features
\* ------------------------------------------------------------------------

Init ==
    /\ \E pd \in {One, NaN} :
       \E pv \in [Features -> PriceVals] :
       \E qv \in [FeaturePairs -> PairVals] :
          /\ (pd = NaN => \A x \in Features : pv[x] = NaN)
          /\ corr = CorrMatrix(pd, pv, qv)
    /\ thres1 = 0
    /\ thres2 = 0
    /\ select = <<>>
    /\ select_final = <<>>
    /\ pc = "start"
    /\ TableIdle

\* lines 176-181 with the pair tested on the absolute coefficient
ExaminePairAbs(d, v1, v2, t2) ==
    IF v1.var # v2.var /\ Geq(Abs(corr[v1.var][v2.var]), t2)
    THEN IF Gt(Abs(v1.val), Abs(v2.val))
         THEN Pop(d, v2.var)
         ELSE Pop(d, v1.var)
    ELSE d

\* the pair examined without the else branch of line 180
ExaminePairNoElse(d, v1, v2, t2) ==
    IF v1.var # v2.var /\ Geq(corr[v1.var][v2.var], t2)
          /\ Gt(Abs(v1.val), Abs(v2.val))
    THEN Pop(d, v2.var)
    ELSE d

\* lines 176-181 for the pair (var1, var2) = (v1, v2), thres2 = t2
ExaminePair(d, v1, v2, t2) ==
    IF v1.var # v2.var /\ Geq(corr[v1.var][v2.var], t2)
    THEN IF Gt(Abs(v1.val), Abs(v2.val))
         THEN Pop(d, v2.var)
         ELSE Pop(d, v1.var)
    ELSE d

RECURSIVE InnerLoop(_, _, _, _, _)
\* lines 175-181 for one var1: var2 runs over the items of sel from l on
InnerLoop(final, sel, t2, k, l) ==
    IF l > Len(sel) THEN final
    ELSE InnerLoop(ExaminePair(final, sel[k], sel[l], t2), sel, t2, k, l + 1)

RECURSIVE OuterLoop(_, _, _, _)
\* lines 174-181: var1 runs over the items of sel from k on
OuterLoop(final, sel, t2, k) ==
    IF k > Len(sel) THEN final
    ELSE OuterLoop(InnerLoop(final, sel, t2, k, 1), sel, t2, k + 1)

\* select_features(t1, t2) runs to its end (lines 169-185): 'price' passed
\* the filter of line 169, so line 170 pops it
SelectFeatures ==
    \E t1 \in Thres1Vals : \E t2 \in Thres2Vals :
        /\ pc = "start"
        /\ thres1' = t1
        /\ thres2' = t2
        /\ LET filtered == FilterItems(corr, Columns, t1)
           IN /\ Price \in Keys(filtered)
              /\ select' = SortItems(Pop(filtered, Price))
        /\ select_final' = OuterLoop(select', select', t2, 1)
        /\ pc' = "done"
        /\ UNCHANGED <<corr, tableVars, chartVars>>

\* select_features(t1, t2) raises: 'price' did not pass the filter of line
\* 169, and select.pop('price') at line 170 raises KeyError
SelectFeaturesRaises ==
    \E t1 \in Thres1Vals : \E t2 \in Thres2Vals :
        /\ pc = "start"
        /\ thres1' = t1
        /\ thres2' = t2
        /\ Price \notin Keys(FilterItems(corr, Columns, t1))
        /\ pc' = "raised"
        /\ UNCHANGED <<corr, select, select_final, tableVars, chartVars>>

Next ==
    \/ SelectFeatures
    \/ SelectFeaturesRaises

Spec == Init /\ [][Next]_vars

\* ------------------------------------------------------------------------
\* DataCleaner: loading a file, cleaning steps, writing and reloading
\* ------------------------------------------------------------------------

\* Texts of the cells of the input file, by column.  The first column of
\* the file is the row index.
UrlTexts == {<<"h", "t", "t", "p", ":", "x">>, <<>>}

TypeTexts == {<<" ", "a", "B">>, <<"A", "b">>, <<"X", "g">>}

IdTexts == {<<"1">>, <<"2">>}

PriceTexts == {<<"1", "0", "0", ".", "5">>, <<>>}

HasGardenTexts == {<<"T", "r", "u", "e">>, <<>>}

InputHeader == <<"", "id", "url", "type", "price", "hasGarden">>

\* the input files of n rows
InputFiles(n) ==
    {[header |-> InputHeader,
      lines |-> [k \in 1..n |->
                   <<IntText(k - 1), id[k], url[k], type[k], price[k], garden[k]>>],
      written |-> TRUE] :
        id \in [1..n -> IdTexts], url \in [1..n -> UrlTexts],
        type \in [1..n -> TypeTexts], price \in [1..n -> PriceTexts],
        garden \in [1..n -> HasGardenTexts]}

\* DataCleaner.__init__: self.df is the table loaded from the input file
InitClean ==
    /\ SelectIdle
    /\ \E n \in 1..MaxRows : \E f \in InputFiles(n) :
          /\ original_df = ReadCsv(f).df
          /\ df = original_df
    /\ err = "none"
    /\ phase = "loaded"
    /\ op = NoOp
    /\ df_once = NoTable
    /\ file = NoFile
    /\ reloaded = NoTable
    /\ most_expensive = <<>>

\* the effect of the call o on the table t
Apply(o, t) ==
    CASE o.name = "remove_columns_by_missing_percentage" ->
            remove_columns_by_missing_percentage(t, o.percent, o.exceptions, o.to_drop)
      [] o.name = "remove_duplicates" -> remove_duplicates(t, o.subset, o.keep)
      [] o.name = "remove_spaces" -> remove_spaces(t)
      [] o.name = "remove_by_column_values" ->
            remove_by_column_values(t, o.column, o.value)
      [] o.name = "handle_errors" -> handle_errors(t)
      [] o.name = "handle_missing_values" -> handle_missing_values(t)
      [] o.name = "replace_rare_values" ->
            replace_rare_values(t, o.column, o.replacement, o.min_amount)

\* The script may call the step o: on the loaded table, or a second time
\* with the same arguments on the table the first call left.
MayCall(o) ==
    /\ phase \in {"loaded", "once"}
    /\ err = "none"
    /\ phase = "once" => o = op

\* the call o runs on self.df
Called(o) ==
    /\ LET r == Apply(o, df)
       IN /\ df' = r.df
          /\ err' = r.err
          /\ df_once' = IF phase = "loaded" THEN r.df ELSE df_once
    /\ op' = o
    /\ phase' = IF phase = "loaded" THEN "once" ELSE "twice"

RemoveColumnsByMissingPercentage ==
    \E percent \in {50, 100} :
    \E exceptions \in {<<>>, <<"url">>} :
    \E to_drop \in {<<>>, <<"url">>} :
        LET o == [NoOp EXCEPT !.name = "remove_columns_by_missing_percentage",
                              !.percent = percent,
                              !.exceptions = exceptions,
                              !.to_drop = to_drop]
        IN /\ MayCall(o)
           /\ Called(o)
           /\ UNCHANGED <<original_df, file, reloaded, selectVars, chartVars>>

RemoveDuplicates ==
    \E subset \in {<<>>, <<"id">>} :
    \E keep \in {"first", "last", "none"} :
        LET o == [NoOp EXCEPT !.name = "remove_duplicates",
                              !.subset = subset,
                              !.keep = keep]
        IN /\ MayCall(o)
           /\ Called(o)
           /\ UNCHANGED <<original_df, file, reloaded, selectVars, chartVars>>

RemoveSpaces ==
    LET o == [NoOp EXCEPT !.name = "remove_spaces"]
    IN /\ MayCall(o)
       /\ Called(o)
       /\ UNCHANGED <<original_df, file, reloaded, selectVars, chartVars>>

RemoveByColumnValues ==
    LET o == [NoOp EXCEPT !.name = "remove_by_column_values",
                          !.column = "type",
                          !.value = <<<<"A", "g">>, <<"X", "g">>>>]
    IN /\ MayCall(o)
       /\ Called(o)
       /\ UNCHANGED <<original_df, file, reloaded, selectVars, chartVars>>

HandleErrors ==
    LET o == [NoOp EXCEPT !.name = "handle_errors"]
    IN /\ MayCall(o)
       /\ Called(o)
       /\ UNCHANGED <<original_df, file, reloaded, selectVars, chartVars>>

HandleMissingValues ==
    LET o == [NoOp EXCEPT !.name = "handle_missing_values"]
    IN /\ MayCall(o)
       /\ Called(o)
       /\ UNCHANGED <<original_df, file, reloaded, selectVars, chartVars>>

ReplaceRareValues ==
    \E replacement \in {NA, PyStr(<<"O">>)} :
        LET o == [NoOp EXCEPT !.name = "replace_rare_values",
                              !.column = "type",
                              !.replacement = replacement,
                              !.min_amount = 2]
        IN /\ MayCall(o)
           /\ Called(o)
           /\ UNCHANGED <<original_df, file, reloaded, selectVars, chartVars>>

\* DataCleaner.write_to_csv(path)
WriteToCsv ==
    /\ phase \in {"loaded", "once"}
    /\ err = "none"
    /\ file' = ToCsv(df)
    /\ phase' = "written"
    /\ UNCHANGED <<original_df, df, err, op, df_once, reloaded, selectVars, chartVars>>

\* DataCleaner(path): create_dataframe loads the file that was written
CreateDataframe ==
    /\ phase = "written"
    /\ LET r == ReadCsv(file)
       IN /\ reloaded' = r.df
          /\ err' = r.err
    /\ phase' = "reloaded"
    /\ UNCHANGED <<original_df, df, op, df_once, file, selectVars, chartVars>>

NextClean ==
    \/ RemoveColumnsByMissingPercentage
    \/ RemoveDuplicates
    \/ RemoveSpaces
    \/ RemoveByColumnValues
    \/ HandleErrors
    \/ HandleMissingValues
    \/ ReplaceRareValues
    \/ WriteToCsv
    \/ CreateDataframe

SpecClean == InitClean /\ [][NextClean]_vars

\* ------------------------------------------------------------------------
\* Correlation.label_encoding
\* ------------------------------------------------------------------------

\* A category is a str cell of one token: 'GOOD' is PyStr(<<"GOOD">>).
Cat(name) == PyStr(<<name>>)

\* order_flood: the rank of a name is its position - 1
order_flood ==
    <<"RECOGNIZED_N_CIRCUMSCRIBED_WATERSIDE_FLOOD_ZONE",
      "RECOGNIZED_N_CIRCUMSCRIBED_FLOOD_ZONE",
      "RECOGNIZED_FLOOD_ZONE",
      "CIRCUMSCRIBED_WATERSIDE_ZONE",
      "CIRCUMSCRIBED_FLOOD_ZONE",
      "POSSIBLE_N_CIRCUMSCRIBED_WATERSIDE_ZONE",
      "POSSIBLE_N_CIRCUMSCRIBED_FLOOD_ZONE",
      "POSSIBLE_FLOOD_ZONE",
      "NON_FLOOD_ZONE">>

\* order_building
order_building ==
    <<"TO_RESTORE", "TO_RENOVATE", "TO_BE_DONE_UP", "GOOD", "JUST_RENOVATED", "AS_NEW">>

\* order_epcScore, the keys with a rank (the composite scores map to None)
order_epcScore == <<"G", "F", "E", "D", "C", "B", "A", "A+", "A++">>

\* every category name of the model in the order sorted() gives str
AsciiOrder ==
    <<"A", "A+", "A++", "AS_NEW", "B", "C", "CIRCUMSCRIBED_FLOOD_ZONE",
      "CIRCUMSCRIBED_WATERSIDE_ZONE", "C_A", "C_B", "D", "D_C", "E", "E_C", "E_D",
      "F", "F_C", "F_D", "G", "GOOD", "G_C", "G_E", "G_F", "H", "JUST_RENOVATED",
      "NON_FLOOD_ZONE", "POSSIBLE_FLOOD_ZONE", "POSSIBLE_N_CIRCUMSCRIBED_FLOOD_ZONE",
      "POSSIBLE_N_CIRCUMSCRIBED_WATERSIDE_ZONE", "RECOGNIZED_FLOOD_ZONE",
      "RECOGNIZED_N_CIRCUMSCRIBED_FLOOD_ZONE",
      "RECOGNIZED_N_CIRCUMSCRIBED_WATERSIDE_FLOOD_ZONE", "TO_BE_DONE_UP",
      "TO_RENOVATE", "TO_RESTORE">>

IndexOf(seq, x) == CHOOSE k \in 1..Len(seq) : seq[k] = x

\* the default of the parameter label_cols (line 78)
DefaultLabelCols == <<"floodZoneType", "buildingCondition", "epcScore">>

\* the list label_cols is compared with (line 88)
PredefinedLabelCols == <<"floodZoneType", "building_ranking", "epcScore">>

\* the column name of t set to the cells f, appended when it is new
AssignColumn(t, name, f) ==
    LET cols == IF name \in ColNames(t) THEN t.columns ELSE Append(t.columns, name)
        all == ColNames(t) \cup {name}
    IN [columns |-> cols,
        dtypes |-> [c \in all |-> IF c = name THEN InferDtype(f) ELSE t.dtypes[c]],
        rows |-> [k \in 1..Len(t.rows) |->
                    [idx |-> t.rows[k].idx,
                     cells |-> [c \in all |->
                        IF c = name THEN f[k] ELSE t.rows[k].cells[c]]]]]

\* Series.map(order): the rank of a key of order, NaN for any other value;
\* a column with a NaN holds floats
MapOrder(cells, order) ==
    LET ranked(x) == x.t = "str" /\ Len(x.s) = 1 /\ x.s[1] \in SeqSet(order)
        whole == \A k \in 1..Len(cells) : ranked(cells[k])
    IN [k \in 1..Len(cells) |->
          IF ~ranked(cells[k]) THEN NA
          ELSE IF whole THEN PyInt(IndexOf(order, cells[k].s[1]) - 1)
          ELSE PyFloat((IndexOf(order, cells[k].s[1]) - 1) * 10)]

\* lines 116-118: the three columns of predefined ranks
PredefinedOrders(t) ==
    LET t1 == AssignColumn(t, "floodZoneType_label_encoding",
                  MapOrder(ColumnCells(t, "floodZoneType"), order_flood))
        t2 == AssignColumn(t1, "buildingCondition_label_encoding",
                  MapOrder(ColumnCells(t, "buildingCondition"), order_building))
    IN AssignColumn(t2, "epcScore_label_encoding",
                  MapOrder(ColumnCells(t, "epcScore"), order_epcScore))

\* LabelEncoder().fit_transform(cells): the position of each value in the
\* sorted classes; NaN is the last class
FitTransform(cells) ==
    LET classes == {cells[k].s[1] : k \in {l \in 1..Len(cells) : ~IsNA(cells[l])}}
        code(x) == IF IsNA(x) THEN Cardinality(classes)
                   ELSE Cardinality({y \in classes :
                            IndexOf(AsciiOrder, y) < IndexOf(AsciiOrder, x.s[1])})
    IN [k \in 1..Len(cells) |-> PyInt(code(cells[k]))]

RECURSIVE EncodeColumns(_, _, _)
\* lines 121-123: each column of label_cols replaced by its codes.  sorted()
\* of str and NaN together raises TypeError in the scikit-learn releases
\* that do not set NaN apart (nan_sortable = FALSE).
EncodeColumns(t, label_cols, nan_sortable) ==
    IF label_cols = <<>> THEN Ok(t)
    ELSE LET col == Head(label_cols)
         IN IF col \notin ColNames(t) THEN Raise(t, "KeyError")
            ELSE IF ~nan_sortable
                    /\ (\E k \in 1..Len(t.rows) : IsNA(t.rows[k].cells[col]))
                    /\ (\E k \in 1..Len(t.rows) : ~IsNA(t.rows[k].cells[col]))
                 THEN Raise(t, "TypeError")
            ELSE EncodeColumns(
                    AssignColumn(t, col, FitTransform(ColumnCells(t, col))),
                    Tail(label_cols), nan_sortable)

\* Correlation.label_encoding
label_encoding(t, label_cols, nan_sortable) ==
    IF label_cols = PredefinedLabelCols
    THEN Ok(PredefinedOrders(t))
    ELSE EncodeColumns(t, label_cols, nan_sortable)

\* Categories of the cells of the table handed to Correlation, by column.
FloodCells == {Cat("NON_FLOOD_ZONE"), Cat("POSSIBLE_FLOOD_ZONE"), NA}

BuildingCells == {Cat("GOOD"), Cat("AS_NEW"), NA}

EpcCells == {Cat("G"), Cat("A++"), Cat("G_C"), Cat("H"), NA}

\* the tables of n rows
EncodeTables(n) ==
    {LET cells == [c \in SeqSet(DefaultLabelCols) |->
                      CASE c = "floodZoneType" -> flood
                        [] c = "buildingCondition" -> building
                        [] OTHER -> epc]
     IN [columns |-> DefaultLabelCols,
         dtypes |-> [c \in SeqSet(DefaultLabelCols) |-> InferDtype(cells[c])],
         rows |-> [k \in 1..n |->
                     [idx |-> PyInt(k - 1),
                      cells |-> [c \in SeqSet(DefaultLabelCols) |-> cells[c][k]]]]] :
        flood \in [1..n -> FloodCells], building \in [1..n -> BuildingCells],
        epc \in [1..n -> EpcCells]}

\* Correlation(df): original_df keeps the table as it was handed over
InitEncode ==
    /\ SelectIdle
    /\ \E n \in 1..MaxRows : original_df \in EncodeTables(n)
    /\ df = original_df
    /\ err = "none"
    /\ phase = "loaded"
    /\ op = NoOp
    /\ df_once = NoTable
    /\ file = NoFile
    /\ reloaded = NoTable
    /\ most_expensive = <<>>

\* a call of label_encoding: with its default, with the list of line 88, or
\* with a list of the caller's
LabelEncoding ==
    \E label_cols \in {DefaultLabelCols, PredefinedLabelCols, <<"epcScore">>} :
    \E nan_sortable \in BOOLEAN :
        /\ phase = "loaded"
        /\ LET r == label_encoding(df, label_cols, nan_sortable)
           IN /\ df' = r.df
              /\ err' = r.err
        /\ op' = [NoOp EXCEPT !.name = "label_encoding", !.label_cols = label_cols]
        /\ phase' = "encoded"
        /\ UNCHANGED <<original_df, df_once, file, reloaded, selectVars, chartVars>>

NextEncode == LabelEncoding

SpecEncode == InitEncode /\ [][NextEncode]_vars

\* ------------------------------------------------------------------------
\* Correlation.target_encoding
\* ------------------------------------------------------------------------

RECURSIVE SumTenths(_)
\* the sum of a sequence of numeric cells, in tenths
SumTenths(cells) ==
    IF cells = <<>> THEN 0 ELSE Tenths(Head(cells)) + SumTenths(Tail(cells))

\* the mean of price over all rows, whatever their category
GlobalMean(t, col, x) ==
    LET keep == [k \in 1..Len(t.rows) |-> ~IsNA(t.rows[k].cells["price"])]
        prices == SelectSeq2(ColumnCells(t, "price"), keep)
    IN IF prices = <<>> THEN NA
       ELSE PyFloat(SumTenths(prices) \div Len(prices))

\* self.df.groupby(col)['price'].mean() looked up at x, as Series.map does:
\* the groups are the non-missing values of col, the mean skips the missing
\* prices and is NaN for a group without a price; a value that is no group
\* (a missing one) maps to NaN
GroupMean(t, col, x) ==
    LET keep == [k \in 1..Len(t.rows) |->
                    /\ t.rows[k].cells[col] = x
                    /\ ~IsNA(t.rows[k].cells["price"])]
        prices == SelectSeq2(ColumnCells(t, "price"), keep)
    IN IF IsNA(x) \/ prices = <<>> THEN NA
       ELSE PyFloat(SumTenths(prices) \div Len(prices))

RECURSIVE target_encoding(_, _)
\* Correlation.target_encoding: one new column per col of target_cols
target_encoding(t, target_cols) ==
    IF target_cols = <<>> THEN Ok(t)
    ELSE LET col == Head(target_cols)
         IN IF col \notin ColNames(t) \/ "price" \notin ColNames(t)
            THEN Raise(t, "KeyError")
            ELSE target_encoding(
                    AssignColumn(t, col \o "_target_encoding",
                        [k \in 1..Len(t.rows) |->
                            GroupMean(t, col, t.rows[k].cells[col])]),
                    Tail(target_cols))

\* Cells of the table handed to Correlation, by column.  The prices are
\* multiples of 60, so that the mean of any group of the model is a whole
\* number of tenths: the float the code computes is that number exactly.
PostCodeCells == {PyFloat(10000), PyFloat(90000), NA}

LocalityCells == {Cat("X"), Cat("Y")}

PriceCells == {PyFloat(1200), PyFloat(2400), NA}

TargetColumns == <<"postCode", "locality", "price">>

\* the tables of n rows
TargetTables(n) ==
    {LET cells == [c \in SeqSet(TargetColumns) |->
                      CASE c = "postCode" -> post
                        [] c = "locality" -> loc
                        [] OTHER -> price]
     IN [columns |-> TargetColumns,
         dtypes |-> [c \in SeqSet(TargetColumns) |->
                        IF c = "locality" THEN "object" ELSE "float64"],
         rows |-> [k \in 1..n |->
                     [idx |-> PyInt(k - 1),
                      cells |-> [c \in SeqSet(TargetColumns) |-> cells[c][k]]]]] :
        post \in [1..n -> PostCodeCells], loc \in [1..n -> LocalityCells],
        price \in [1..n -> PriceCells]}

\* Correlation(df): original_df keeps the table as it was handed over
InitTarget ==
    /\ SelectIdle
    /\ \E n \in 1..MaxRows : original_df \in TargetTables(n)
    /\ df = original_df
    /\ err = "none"
    /\ phase = "loaded"
    /\ op = NoOp
    /\ df_once = NoTable
    /\ file = NoFile
    /\ reloaded = NoTable
    /\ most_expensive = <<>>

\* a call of target_encoding: with its default, or with a list of the caller's
TargetEncoding ==
    \E target_cols \in {<<"postCode">>, <<"locality">>, <<"locality", "postCode">>} :
        /\ phase = "loaded"
        /\ LET r == target_encoding(df, target_cols)
           IN /\ df' = r.df
              /\ err' = r.err
        /\ op' = [NoOp EXCEPT !.name = "target_encoding", !.target_cols = target_cols]
        /\ phase' = "target_encoded"
        /\ UNCHANGED <<original_df, df_once, file, reloaded, selectVars, chartVars>>

NextTarget == TargetEncoding

SpecTarget == InitTarget /\ [][NextTarget]_vars

\* ------------------------------------------------------------------------
\* DataVisualizer.most_least_expensive_locality
\* ------------------------------------------------------------------------

flanders_provinces == {"West flanders", "East flanders", "Antwerp", "Flemish brabant"}

wallonia_provinces == {"Hainaut", "Liège", "Walloon brabant", "Namur", "Luxembourg"}

brussels_province == "Brussels"

Metrics == {"average_price", "median_price", "price_per_m2"}

\* DataVisualizer.filter_by_region
filter_by_region(t, region) ==
    LET province(k) == t.rows[k].cells["province"].s[1]
    IN CASE region = "Flanders" ->
              Ok(KeepRows(t, [k \in 1..Len(t.rows) |-> province(k) \in flanders_provinces]))
         [] region = "Wallonia" ->
              Ok(KeepRows(t, [k \in 1..Len(t.rows) |-> province(k) \in wallonia_provinces]))
         [] region = "Brussels" ->
              Ok(KeepRows(t, [k \in 1..Len(t.rows) |-> province(k) = brussels_province]))
         [] OTHER -> Raise(t, "ValueError")

RECURSIVE SumOf(_)
\* the sum of a sequence of numbers
SumOf(nums) == IF nums = <<>> THEN 0 ELSE Head(nums) + SumOf(Tail(nums))

\* 'mean' of a group: the numbers count tenths, and the sums of the model
\* are multiples of their counts
Mean(nums) == SumOf(nums) \div Len(nums)

RECURSIVE InsertAsc(_, _)
InsertAsc(sorted, x) ==
    IF sorted = <<>> THEN <<x>>
    ELSE IF x < Head(sorted) THEN <<x>> \o sorted
    ELSE <<Head(sorted)>> \o InsertAsc(Tail(sorted), x)

RECURSIVE SortAsc(_)
SortAsc(nums) ==
    IF nums = <<>> THEN <<>> ELSE InsertAsc(SortAsc(Tail(nums)), Head(nums))

\* 'median' of a group: the middle of the sorted numbers, the mean of the
\* two middle ones for an even count
Median(nums) ==
    LET sorted == SortAsc(nums)
        n == Len(nums)
    IN IF n % 2 = 1 THEN sorted[(n + 1) \div 2]
       ELSE (sorted[n \div 2] + sorted[n \div 2 + 1]) \div 2

\* the locality names of the model in the order groupby sorts its keys
LocalityOrder == <<"Aalst", "Gent", "Namur">>

\* DataVisualizer.collect_data: one row per locality of the region, in the
\* order of the group keys, with the three metrics in tenths
collect_data(t, region) ==
    LET r == filter_by_region(t, region)
        filtered_data == r.df
        n == Len(filtered_data.rows)
        locality(k) == filtered_data.rows[k].cells["locality"].s[1]
        price == [k \in 1..n |-> Tenths(filtered_data.rows[k].cells["price"])]
        price_per_m2 == [k \in 1..n |->
            price[k] \div filtered_data.rows[k].cells["habitableSurface"].n]
        present == [i \in 1..Len(LocalityOrder) |->
                       \E k \in 1..n : locality(k) = LocalityOrder[i]]
        group(name) == [k \in 1..n |-> locality(k) = name]
        agg(name) == [locality |-> name,
                      average_price |-> Mean(SelectSeq2(price, group(name))),
                      median_price |-> Median(SelectSeq2(price, group(name))),
                      price_per_m2 |-> Mean(SelectSeq2(price_per_m2, group(name)))]
        keys == SelectSeq2(LocalityOrder, present)
    IN IF r.err # "none" THEN [df |-> <<>>, err |-> r.err]
       ELSE [df |-> [i \in 1..Len(keys) |-> agg(keys[i])], err |-> "none"]

\* rows is in the order sort_values(column, ascending) allows
Sorted(rows, column, ascending) ==
    \A i \in 1..(Len(rows) - 1) :
        IF ascending THEN rows[i][column] <= rows[i + 1][column]
        ELSE rows[i][column] >= rows[i + 1][column]

\* DataFrame.sort_values(column, ascending=ascending): every order of the
\* rows that is sorted by column; the default sort is not stable, so rows
\* with equal values come in any order
sort_values(rows, column, ascending) ==
    LET n == Len(rows)
        perms == {f \in [1..n -> 1..n] : \A i, j \in 1..n : i # j => f[i] # f[j]}
    IN {q \in {[i \in 1..n |-> rows[f[i]]] : f \in perms} :
            Sorted(q, column, ascending)}

\* line 76: the sorted rows the chart may get, before head(top)
SortForChart(rows, metric, ascending) == sort_values(rows, "average_price", ascending)

\* DataFrame.head(top)
head(rows, top) == SubSeq(rows, 1, IF top < Len(rows) THEN top ELSE Len(rows))

\* The table handed to DataVisualizer.  A locality lies in one province; the
\* prices are multiples of 360000 and the surfaces 100 and 300, so that
\* every metric of the model is a whole number of tenths.
Places == {[province |-> "East flanders", locality |-> "Aalst"],
           [province |-> "East flanders", locality |-> "Gent"],
           [province |-> "Namur", locality |-> "Namur"]}

SalePrices == {360000, 720000, 1800000}

Surfaces == {100, 300}

SaleColumns == <<"province", "locality", "price", "habitableSurface">>

Sales == {[province |-> Cat(pl.province), locality |-> Cat(pl.locality),
           price |-> PyInt(p), habitableSurface |-> PyInt(m)] :
             pl \in Places, p \in SalePrices, m \in Surfaces}

\* the place of a sale in a fixed order of Sales
SaleRank(c) ==
    (IndexOf(LocalityOrder, c.locality.s[1]) * 10 + c.price.n \div 360000) * 1000
        + c.habitableSurface.n

\* The tables of n rows.  No metric depends on the order of the rows of a
\* group and groupby sorts the groups, so the rows come in one order only.
SaleTables(n) ==
    {[columns |-> SaleColumns,
      dtypes |-> [c \in SeqSet(SaleColumns) |->
                     IF c \in {"province", "locality"} THEN "object" ELSE "int64"],
      rows |-> [k \in 1..n |-> [idx |-> PyInt(k - 1), cells |-> cells[k]]]] :
        cells \in {f \in [1..n -> Sales] :
                      \A k \in 1..(n - 1) : SaleRank(f[k]) <= SaleRank(f[k + 1])}}

\* DataVisualizer(df)
InitChart ==
    /\ SelectIdle
    /\ \E n \in 1..MaxSales : original_df \in SaleTables(n)
    /\ df = original_df
    /\ err = "none"
    /\ phase = "loaded"
    /\ op = NoOp
    /\ df_once = NoTable
    /\ file = NoFile
    /\ reloaded = NoTable
    /\ most_expensive = <<>>

\* the call with its arguments
ChartCall(region, metric, type_of_sort, top) ==
    [NoOp EXCEPT !.name = "most_least_expensive_locality", !.region = region,
                 !.metric = metric, !.type_of_sort = type_of_sort, !.top = top]

\* most_least_expensive_locality with a metric of the list: the chart gets
\* the first top rows of the sorted table
MostLeastExpensiveLocality ==
    \E region \in {"Flanders", "Wallonia", "Brussels"} : \E metric \in Metrics :
    \E type_of_sort \in BOOLEAN : \E top \in {1, 2} :
        /\ phase = "loaded"
        /\ LET r == collect_data(df, region)
           IN /\ \E sorted \in SortForChart(r.df, metric, type_of_sort) :
                    most_expensive' = head(sorted, top)
              /\ err' = r.err
        /\ op' = ChartCall(region, metric, type_of_sort, top)
        /\ phase' = "charted"
        /\ UNCHANGED <<original_df, df, df_once, file, reloaded, selectVars>>

\* most_least_expensive_locality with another metric, or with a region
\* filter_by_region does not know: ValueError, no chart
MostLeastExpensiveLocalityRaises ==
    \E a \in {[region |-> "Flanders", metric |-> "price"],
              [region |-> "Belgium", metric |-> "average_price"]} :
        /\ phase = "loaded"
        /\ a.metric \notin Metrics \/ collect_data(df, a.region).err # "none"
        /\ err' = "ValueError"
        /\ op' = ChartCall(a.region, a.metric, FALSE, 10)
        /\ phase' = "charted"
        /\ UNCHANGED <<original_df, df, df_once, file, reloaded, selectVars,
                       chartVars>>

NextChart == MostLeastExpensiveLocality \/ MostLeastExpensiveLocalityRaises

SpecChart == InitChart /\ [][NextChart]_vars

\* ------------------------------------------------------------------------
\* Properties of Correlation.label_encoding
\* ------------------------------------------------------------------------

\* column name of df holds, row by row, the rank in order of the category of
\* column src of the table handed over, and NaN where it has no rank
HoldsRanks(name, src, order) ==
    /\ name \in ColNames(df)
    /\ \A k \in 1..Len(original_df.rows) :
          LET x == original_df.rows[k].cells[src]
              y == df.rows[k].cells[name]
          IN IF x.t = "str" /\ x.s[1] \in SeqSet(order)
             THEN ~IsNA(y) /\ Tenths(y) = (IndexOf(order, x.s[1]) - 1) * 10
             ELSE IsNA(y)

\* C10: label_encoding with its default column list adds the columns
\* floodZoneType_label_encoding, buildingCondition_label_encoding and
\* epcScore_label_encoding holding the predefined rank of each row's
\* category, maps categories without a rank (composite EPC scores too) to
\* missing, and leaves the three source columns unchanged.
C10_DefaultAppliesRankMaps ==
    (phase = "encoded" /\ op.label_cols = DefaultLabelCols) =>
        /\ err = "none"
        /\ HoldsRanks("floodZoneType_label_encoding", "floodZoneType", order_flood)
        /\ HoldsRanks("buildingCondition_label_encoding", "buildingCondition",
                      order_building)
        /\ HoldsRanks("epcScore_label_encoding", "epcScore", order_epcScore)
        /\ \A c \in SeqSet(DefaultLabelCols) :
              ColumnCells(df, c) = ColumnCells(original_df, c)

\* ------------------------------------------------------------------------
\* Properties of Correlation.target_encoding
\* ------------------------------------------------------------------------

\* the rows of the table handed over that share the category of row k in
\* column col and have a price
Sharing(col, k) ==
    {l \in 1..Len(original_df.rows) :
        /\ original_df.rows[l].cells[col] = original_df.rows[k].cells[col]
        /\ ~IsNA(original_df.rows[l].cells["price"])}

RECURSIVE PriceSum(_)
\* the sum of the prices of a set of rows of the table handed over, in tenths
PriceSum(rows) ==
    IF rows = {} THEN 0
    ELSE LET l == CHOOSE l \in rows : TRUE
         IN Tenths(original_df.rows[l].cells["price"]) + PriceSum(rows \ {l})

\* C11: target_encoding(cols) adds for each col the column
\* col_target_encoding, whose value in every row is the mean of price over
\* the rows sharing that row's category; a row with a missing category, or
\* whose group has only missing prices, gets a missing value; the source
\* column and every other existing column are unchanged.
C11_TargetMeans ==
    phase = "target_encoded" =>
        /\ err = "none"
        /\ ColNames(df) = ColNames(original_df) \cup
              {c \o "_target_encoding" : c \in SeqSet(op.target_cols)}
        /\ Len(df.rows) = Len(original_df.rows)
        /\ \A c \in ColNames(original_df) :
              ColumnCells(df, c) = ColumnCells(original_df, c)
        /\ \A c \in SeqSet(op.target_cols) : \A k \in 1..Len(df.rows) :
              LET y == df.rows[k].cells[c \o "_target_encoding"]
                  group == Sharing(c, k)
              IN IF IsNA(original_df.rows[k].cells[c]) \/ group = {}
                 THEN IsNA(y)
                 ELSE ~IsNA(y) /\ Tenths(y) * Cardinality(group) = PriceSum(group)

\* target_encoding ran on a table where two rows of one category have
\* different prices, and gave both the mean of the two
C11_Witness ==
    /\ phase = "target_encoded"
    /\ err = "none"
    /\ "locality" \in SeqSet(op.target_cols)
    /\ \E k, l \in 1..Len(df.rows) :
          /\ df.rows[k].cells["locality"] = df.rows[l].cells["locality"]
          /\ ~IsNA(df.rows[k].cells["price"])
          /\ ~IsNA(df.rows[l].cells["price"])
          /\ df.rows[k].cells["price"] # df.rows[l].cells["price"]
          /\ df.rows[k].cells["locality_target_encoding"] = PyFloat(1800)

\* ------------------------------------------------------------------------
\* Properties of select_features
\* ------------------------------------------------------------------------

\* the value of corr(price, x) in the matrix
PriceCorr(x) == corr[Price][x]

\* x and y are redundant: the signed coefficient reaches thres2
Redundant(x, y) == Geq(corr[x][y], thres2)

Selected == Keys(select_final)

Candidates == Keys(select)

\* C1: select_features never raises, whatever the matrix and the thresholds;
\* when no non-price column reaches thres1 in absolute correlation with price
\* it completes with an empty selection.
C1_NeverRaises ==
    /\ pc # "raised"
    /\ (pc = "done" /\ \A x \in Features : ~Geq(Abs(PriceCorr(x)), thres1))
          => select_final = <<>>

\* C2: of two redundant candidates with equal |corr(price, .)| exactly one is
\* dropped, and the one earlier in the candidate order is kept, provided no
\* other candidate makes it redundant.
C2_TieKeepsFirst ==
    pc = "done" =>
        \A a, b \in 1..Len(select) :
            ( /\ a < b
              /\ Redundant(select[a].var, select[b].var)
              /\ Abs(select[a].val) = Abs(select[b].val)
              /\ \A c \in 1..Len(select) :
                    c \notin {a, b} => ~Redundant(select[a].var, select[c].var) )
            => /\ select[a].var \in Selected
               /\ select[b].var \notin Selected

\* C3: a candidate that was already dropped never causes another one to be
\* dropped: for candidates A, B, C in strictly descending |corr(price, .)|
\* with A-B redundant, B-C redundant and A-C not redundant the selection is
\* {A, C}.
C3_DroppedNeverDrops ==
    ( /\ pc = "done"
      /\ Len(select) = 3
      /\ Abs(select[1].val) > Abs(select[2].val)
      /\ Abs(select[2].val) > Abs(select[3].val)
      /\ Redundant(select[1].var, select[2].var)
      /\ Redundant(select[2].var, select[3].var)
      /\ ~Redundant(select[1].var, select[3].var)
      /\ ~Redundant(select[3].var, select[1].var) )
    => Selected = {select[1].var, select[3].var}

\* no two distinct non-price columns are perfectly correlated
NoPerfectPair == \A x, y \in Features : x # y => corr[x][y] # One

\* C4 (as claimed): select_features(thres1=0, thres2=1) selects every
\* non-price column of the matrix when no two distinct non-price columns have
\* pairwise correlation 1.
C4_SelectsEveryColumn ==
    (pc = "done" /\ thres1 = 0 /\ thres2 = One /\ NoPerfectPair)
        => Selected = Features

\* C4 (amended): select_features(thres1=0, thres2=1) selects exactly the
\* non-price columns whose correlation with price is defined (not NaN), when
\* no two distinct non-price columns have pairwise correlation 1.
C4_SelectsEveryDefinedColumn ==
    (pc \in {"done", "raised"} /\ thres1 = 0 /\ thres2 = One) =>
        (NoPerfectPair => Selected = {x \in Features : PriceCorr(x) # NaN})

C4_Witness ==
    /\ pc = "done" /\ thres1 = 0 /\ thres2 = One /\ NoPerfectPair
    /\ \E x \in Features : PriceCorr(x) = NaN
    /\ \E x, y \in Selected : x # y /\ corr[x][y] = 19

\* C5: for candidates A, B with |corr(price,A)| > |corr(price,B)|, B is not
\* selected whenever the signed corr(A,B) >= thres2; a candidate is dropped
\* only because of a pair whose signed coefficient reaches thres2, however
\* negative the other coefficients are; with A = 0.9, B = 0.5, corr(A,B) =
\* 0.95 and thres2 = 0.3 as the only candidates, B is dropped and A is kept.
C5_DropRule ==
    pc = "done" =>
        LET kept == Selected
            cand == Candidates
        IN /\ \A a, b \in 1..Len(select) :
                 ( /\ Gt(Abs(select[a].val), Abs(select[b].val))
                   /\ Redundant(select[a].var, select[b].var) )
                 => select[b].var \notin kept
           /\ \A x \in cand \ kept :
                 \E y \in cand \ {x} : Redundant(x, y)
           /\ ( /\ Len(select) = 2
                /\ select[1].val = 18
                /\ select[2].val = 10
                /\ corr[select[1].var][select[2].var] = 19
                /\ thres2 = 6 )
              => select_final = <<select[1]>>

C5_Witness ==
    /\ pc = "done"
    /\ \E a, b, c \in 1..Len(select) :
          /\ Gt(Abs(select[a].val), Abs(select[b].val))
          /\ Redundant(select[a].var, select[b].var)
          /\ select[b].var \notin Selected
          /\ corr[select[a].var][select[c].var] = 0 - 19
          /\ {select[a].var, select[c].var} \subseteq Selected

\* C6: the selection never contains 'price', contains only columns X with
\* |corr(price,X)| >= thres1, maps each X to the signed corr(price,X), and
\* lists its items in non-increasing order of |corr(price,X)|.
C6_SelectionShape ==
    pc = "done" =>
        /\ \A k \in 1..Len(select_final) :
              /\ select_final[k].var # Price
              /\ select_final[k].var \in Features
              /\ Geq(Abs(PriceCorr(select_final[k].var)), thres1)
              /\ select_final[k].val = PriceCorr(select_final[k].var)
        /\ \A k \in 1..Len(select_final) : \A l \in (k + 1)..Len(select_final) :
              /\ Abs(select_final[k].val) >= Abs(select_final[l].val)
              /\ select_final[k].var # select_final[l].var

C6_Witness ==
    /\ pc = "done"
    /\ Len(select_final) >= 2
    /\ thres1 = 14
    /\ Pos(select_final[1].var) > Pos(select_final[2].var)
    /\ select_final[1].val > 0
    /\ select_final[2].val < 0
    /\ \E x \in Features : x \notin Candidates

\* the candidates of the claim, read off the matrix: the non-price columns
\* whose absolute correlation with price reaches thres1
Reaching == {x \in Features : Geq(Abs(PriceCorr(x)), thres1)}

C7_RoundTrip ==
    phase = "reloaded" =>
        /\ err = "none"
        /\ reloaded.columns = df.columns
        /\ Len(reloaded.rows) = Len(df.rows)
        /\ \A k \in 1..Len(df.rows) : reloaded.rows[k].cells = df.rows[k].cells

\* the missing percentage of column c of the loaded table is below percent
MissingBelow(t, c, percent) == MissingCount(t, c) * 100 < percent * Len(t.rows)

\* C8: remove_columns_by_missing_percentage(percent, exceptions, to_drop)
\* succeeds on any table and leaves exactly the columns that are not in
\* to_drop and that have a missing percentage < percent or are listed in
\* exceptions.
C8_ExactColumns ==
    (phase = "once" /\ op.name = "remove_columns_by_missing_percentage") =>
        /\ err = "none"
        /\ df.columns = SelectSeq2(original_df.columns,
              [k \in 1..Len(original_df.columns) |->
                  LET c == original_df.columns[k]
                  IN /\ c \notin SeqSet(op.to_drop)
                     /\ \/ MissingBelow(original_df, c, op.percent)
                        \/ c \in SeqSet(op.exceptions)])

\* C9: every cleaning step is idempotent: a second call with the same
\* arguments on the table the first call left succeeds and leaves that table
\* unchanged.
C9_Idempotent ==
    phase = "twice" =>
        /\ err = "none"
        /\ df = df_once

\* a text-typed column of t whose only non-missing value is True
BooleanLike(t, c) == t.dtypes[c] = "object" /\ OnlyTrue(t, c)

\* C12: after handle_missing_values every boolean-like column has its
\* missing entries filled with the default 0 and its True entries set to 1,
\* so the column contains no missing value.
C12_BooleanLikeFilled ==
    (phase = "once" /\ op.name = "handle_missing_values" /\ err = "none") =>
        \A c \in ColNames(original_df) : BooleanLike(original_df, c) =>
            /\ c \in ColNames(df)
            /\ \A k \in 1..Len(df.rows) :
                  df.rows[k].cells[c] =
                      IF original_df.rows[k].cells[c] = True THEN PyInt(1) ELSE PyInt(0)

\* ------------------------------------------------------------------------
\* Properties of DataVisualizer
\* ------------------------------------------------------------------------

\* value a of a metric is strictly better than value b for the chart asked
\* for: higher for the most expensive, lower for the least expensive
Better(a, b) == IF op.type_of_sort THEN a < b ELSE a > b

\* C13: most_least_expensive_locality(region, metric, type_of_sort, top)
\* displays the top localities of the region ranked by the chosen metric
\* (descending when type_of_sort is False, ascending when True): for each of
\* the three metrics, no locality left out of the chart has a strictly
\* better value of that metric than a locality shown in it.
C13_TopByMetric ==
    (phase = "charted" /\ err = "none") =>
        LET all == collect_data(original_df, op.region).df
            shown == {most_expensive[i].locality : i \in 1..Len(most_expensive)}
        IN /\ \A i \in 1..Len(most_expensive) :
                 \E j \in 1..Len(all) : all[j] = most_expensive[i]
           /\ Cardinality(shown) = Len(most_expensive)
           /\ Len(most_expensive) = IF op.top < Len(all) THEN op.top ELSE Len(all)
           /\ \A j \in 1..Len(all) : \A i \in 1..Len(most_expensive) :
                 all[j].locality \notin shown =>
                     ~Better(all[j][op.metric], most_expensive[i][op.metric])

====
